---- MODULE Spec2Model ----
(***************************************************************************)
(* Camera targeting and coordinate normalisation of the AsteroidScene      *)
(* component (src/unnamed/part_000) as mounted by App                      *)
(* (src/src/frontend/src/App.tsx).                                         *)
(*                                                                         *)
(* Numbers are exact rationals <<n, d>> with d > 0 in lowest terms; a      *)
(* vector is a triple of rationals.  Raw positions are integer triples     *)
(* whose Euclidean norm is an integer, so that Vector3.length() is exact.  *)
(* Time is counted in milliseconds and advances in steps of TickMs.        *)
(***************************************************************************)
EXTENDS Integers, Sequences, FiniteSets, TLC

\* ------------------------------------------------------------------ bounds
MaxResets == 2      \* resetSignal takes the values 0..MaxResets
MaxFrames == 2      \* rendered frames per behaviour
TickMs == 300       \* granularity of the clock

\* ------------------------------------------------------- program constants
HomingMs == 600     \* setTimeout(..., 600)
DesiredMax == 30    \* const desiredMax = 30

NULL == "null"      \* null for ids and for the controls object
Null == <<>>        \* targetRef.current === null

\* ---------------------------------------------------------------- rationals
RECURSIVE GCD(_, _)
GCD(a, b) == IF b = 0 THEN a ELSE GCD(b, a % b)

Abs(n) == IF n < 0 THEN -n ELSE n

Rat(n, d) == LET g == GCD(Abs(n), d) IN <<n \div g, d \div g>>

RInt(n) == <<n, 1>>

RAdd(a, b) ==
    LET g == GCD(a[2], b[2])
        l == (a[2] \div g) * b[2]
    IN  Rat(a[1] * (l \div a[2]) + b[1] * (l \div b[2]), l)

RNeg(a) == <<-a[1], a[2]>>

RSub(a, b) == RAdd(a, RNeg(b))

RMul(a, b) ==
    LET g1 == GCD(Abs(a[1]), b[2])
        g2 == GCD(Abs(b[1]), a[2])
    IN  Rat((a[1] \div g1) * (b[1] \div g2), (a[2] \div g2) * (b[2] \div g1))

RLe(a, b) == a[1] * b[2] <= b[1] * a[2]

RMax(a, b) == IF RLe(a, b) THEN b ELSE a

RMin(a, b) == IF RLe(a, b) THEN a ELSE b

\* ------------------------------------------------------------------ vectors
Vec(p) == <<RInt(p[1]), RInt(p[2]), RInt(p[3])>>

Origin == Vec(<<0, 0, 0>>)

VAdd(u, v) == <<RAdd(u[1], v[1]), RAdd(u[2], v[2]), RAdd(u[3], v[3])>>

MultiplyScalar(v, s) == <<RMul(v[1], s), RMul(v[2], s), RMul(v[3], s)>>

\* Vector3.lerp: this += (v - this) * alpha
Lerp(u, v, alpha) ==
    <<RAdd(u[1], RMul(RSub(v[1], u[1]), alpha)),
      RAdd(u[2], RMul(RSub(v[2], u[2]), alpha)),
      RAdd(u[3], RMul(RSub(v[3], u[3]), alpha))>>

LerpFactor == Rat(8, 100)

RECURSIVE SqrtBetween(_, _, _)
SqrtBetween(s, lo, hi) ==
    IF lo >= hi THEN lo
    ELSE LET mid == (lo + hi + 1) \div 2
         IN  IF mid * mid <= s THEN SqrtBetween(s, mid, hi)
             ELSE SqrtBetween(s, lo, mid - 1)

\* Vector3.length() of an integer triple with an integer norm
Length(p) ==
    SqrtBetween(p[1] * p[1] + p[2] * p[2] + p[3] * p[3], 0,
                Abs(p[1]) + Abs(p[2]) + Abs(p[3]))

\* ------------------------------------------------------------------- scenes
Entity(i, p) ==
    [id |-> i, position |-> p, size |-> 1,
     orbit |-> <<p, <<0 - p[2], p[1], p[3]>>, <<0 - p[1], 0 - p[2], p[3]>>>>]

Scenes ==
    { <<>>,
      <<Entity("a", <<100, 0, 0>>)>>,
      <<Entity("a", <<0, 0, 0>>)>>,
      <<Entity("a", <<3, 4, 0>>)>>,
      <<Entity("a", <<2000, 0, 0>>), Entity("b", <<0, -30, 40>>)>> }

IdsOf(ast) == {ast[i].id : i \in 1..Len(ast)}

PositionSetOK(ast) ==
    \A i \in 1..Len(ast) : Length(ast[i].position) * Length(ast[i].position)
        = ast[i].position[1] * ast[i].position[1]
        + ast[i].position[2] * ast[i].position[2]
        + ast[i].position[3] * ast[i].position[3]

\* ---------------------------------------------------------- Scale Normalizer
RECURSIVE ReduceMax(_, _, _)
ReduceMax(ast, i, m) ==
    IF i > Len(ast) THEN m
    ELSE LET l == Length(ast[i].position)
         IN  ReduceMax(ast, i + 1, IF l > m THEN l ELSE m)

\* pts.reduce((m, p) => Math.max(m, p.length()), 0) || 1
MaxDist(ast) ==
    LET m == ReduceMax(ast, 1, 0) IN IF m = 0 THEN 1 ELSE m

ScaleNoLowerClamp(ast) ==
    LET maxDist == MaxDist(ast)
        s == IF maxDist > 0 THEN Rat(DesiredMax, maxDist) ELSE RInt(1)
    IN  RMin(s, RInt(5))

ScaleInverted(ast) ==
    LET maxDist == MaxDist(ast)
        s == IF maxDist > 0 THEN Rat(maxDist, DesiredMax) ELSE RInt(1)
    IN  RMax(Rat(2, 100), RMin(s, RInt(5)))

ScaleNoUpperClamp(ast) ==
    LET maxDist == MaxDist(ast)
        s == IF maxDist > 0 THEN Rat(DesiredMax, maxDist) ELSE RInt(1)
    IN  RMax(Rat(2, 100), s)

Scale(ast) ==
    LET maxDist == MaxDist(ast)
        s == IF maxDist > 0 THEN Rat(DesiredMax, maxDist) ELSE RInt(1)
    IN  RMax(Rat(2, 100), RMin(s, RInt(5)))

\* -------------------------------------------------------------------- state
VARIABLES
    asteroids,       \* data.asteroids, fixed once the scene data is loaded
    hasSurface,      \* the parent renders a navigation-control object
    phase,           \* "created", "mounted" or "unmounted"
    highlightId,     \* highlightId prop of the last render
    resetSignal,     \* resetSignal prop of the last render
    controlsRef,     \* controlsRef.current
    controls,        \* `controls` as computed by the last render
    targetRef,       \* targetRef.current
    cameraPosition,  \* camera.position
    cameraLookAt,    \* the point the camera is oriented at
    controlsTarget,  \* controls.target
    enableRotate,    \* controls.enableRotate
    enabled,         \* controls.enabled
    updateCalls,     \* number of controls.update() calls made so far
    rotationY,       \* groupRef.current.rotation.y, in thousandths
    timers,          \* the timeouts created so far, indexed by timeout id
    timeout,         \* id captured by the pending effect cleanup, 0 if none
    sinceSignal      \* ms since the last change of resetSignal, capped

vars == <<asteroids, hasSurface, phase, highlightId, resetSignal, controlsRef,
          controls, targetRef, cameraPosition, cameraLookAt, controlsTarget,
          enableRotate, enabled, updateCalls, rotationY, timers, timeout,
          sinceSignal>>

\* null, the ids of the scenes, "b" being unknown to the one-entity scenes
HighlightIds == {NULL, "a", "b"}

scale == Scale(asteroids)

Resolvable(h) == h # NULL /\ h \in IdsOf(asteroids)

Find(ast, h) == ast[CHOOSE i \in 1..Len(ast) : ast[i].id = h]

RenderPosition(a, s) == MultiplyScalar(Vec(a.position), s)

PendingTimers == {i \in 1..Len(timers) : timers[i].status = "pending"}

\* --------------------------------------------------------- Render Projector
\* asteroid.position.map((v) => v * scale)
ScaledPos(a, s) ==
    <<RMul(RInt(a.position[1]), s), RMul(RInt(a.position[2]), s),
      RMul(RInt(a.position[3]), s)>>

LinePointsClosed(a, s) ==
    [j \in 1..(Len(a.orbit) + 1) |->
        LET pt == a.orbit[IF j > Len(a.orbit) THEN 1 ELSE j]
        IN  <<RMul(RInt(pt[1]), s), RMul(RInt(pt[2]), s),
              RMul(RInt(pt[3]), s)>>]

\* asteroid.orbit.map((pt) => [pt[0] * scale, pt[1] * scale, pt[2] * scale])
LinePoints(a, s) ==
    [j \in 1..Len(a.orbit) |->
        <<RMul(RInt(a.orbit[j][1]), s), RMul(RInt(a.orbit[j][2]), s),
          RMul(RInt(a.orbit[j][3]), s)>>]

\* ------------------------------------------------------------ effect bodies
\* useEffect(..., [highlightId, data.asteroids])
HighlightEffect(h, ast, s, tgt) ==
    IF h = NULL THEN Null
    ELSE IF h \in IdsOf(ast) THEN RenderPosition(Find(ast, h), s)
    ELSE tgt

HomePositionUnfloored(s) ==
    <<RInt(0), RMul(RInt(20), s), RMul(RInt(40), s)>>

\* new THREE.Vector3(0, 20 * Math.max(1, scale), 40 * Math.max(1, scale))
HomePosition(s) ==
    <<RInt(0), RMul(RInt(20), RMax(RInt(1), s)),
      RMul(RInt(40), RMax(RInt(1), s))>>

DesiredUnscaledOffset(tgt, s) == VAdd(tgt, Vec(<<0, 12, 24>>))

\* new THREE.Vector3(0, 12 * scale, 24 * scale) added to the target
Desired(tgt, s) ==
    VAdd(tgt, <<RInt(0), RMul(RInt(12), s), RMul(RInt(24), s)>>)

ClearTimeoutIgnored(ts, id) == ts

\* clearTimeout(timeout): a pending timeout is cancelled, any other is left
ClearTimeout(ts, id) ==
    IF id \in 1..Len(ts) /\ ts[id].status = "pending"
    THEN [ts EXCEPT ![id] = [@ EXCEPT !.status = "cancelled", !.remaining = 0]]
    ELSE ts

\* how a timeout ended is remembered for the latest timeout only: when a new
\* one is created, the ended ones before it all become "done"
Ended(ts) ==
    [i \in 1..Len(ts) |->
        IF ts[i].status \in {"fired", "cancelled"} /\ i < Len(ts)
        THEN [ts[i] EXCEPT !.status = "done"]
        ELSE ts[i]]

\* setTimeout(() => {...}, 600); the new id is the next index
SetTimeout(ts, cause) ==
    Append(Ended(ts),
           [remaining |-> HomingMs, status |-> "pending", cause |-> cause])

\* body of the resetSignal effect, run with the controls value c of the
\* render that scheduled it and the timeouts ts left by the cleanup
ResetEffect(c, ts, cause) ==
    /\ targetRef' = Origin
    /\ cameraPosition' = HomePosition(scale)
    /\ cameraLookAt' = Origin
    /\ IF c # NULL
       THEN /\ controlsTarget' = Origin
            /\ enableRotate' = TRUE
            /\ enabled' = TRUE
            /\ updateCalls' = updateCalls + 1
       ELSE UNCHANGED <<controlsTarget, enableRotate, enabled, updateCalls>>
    /\ timers' = SetTimeout(ts, cause)
    /\ timeout' = Len(ts) + 1

\* ------------------------------------------------------------------ actions
\* first render and commit: App passes highlightId = null, resetSignal = 0;
\* controlsRef.current is still null while the component body runs and is
\* attached by the commit, before the effects run
Mount ==
    /\ phase = "created"
    /\ phase' = "mounted"
    /\ highlightId' = NULL
    /\ resetSignal' = 0
    /\ controls' = controlsRef
    /\ controlsRef' = IF hasSurface THEN "orbit" ELSE NULL
    /\ ResetEffect(controlsRef, timers, "mount")
    /\ sinceSignal' = 0
    /\ UNCHANGED <<asteroids, hasSurface, rotationY>>

\* a re-render with props h, r and the commit that follows it: cleanups of
\* the effects whose dependencies changed, then their bodies in source order
Commit(h, r) ==
    LET c == controlsRef
        hChanged == h # highlightId
        rChanged == r # resetSignal \/ c # controls
        tgt1 == IF hChanged
                THEN HighlightEffect(h, asteroids, scale, targetRef)
                ELSE targetRef
        cause == IF r # resetSignal THEN "signal" ELSE "controls"
    IN  /\ phase = "mounted"
        /\ highlightId' = h
        /\ resetSignal' = r
        /\ controls' = c
        /\ IF rChanged
           THEN ResetEffect(c, ClearTimeout(timers, timeout), cause)
           ELSE /\ targetRef' = tgt1
                /\ UNCHANGED <<cameraPosition, cameraLookAt, controlsTarget,
                               enableRotate, enabled, updateCalls, timers,
                               timeout>>
        /\ sinceSignal' = IF r # resetSignal THEN 0 ELSE sinceSignal
        /\ UNCHANGED <<asteroids, hasSurface, phase, controlsRef, rotationY>>

\* the parent changes the selection only
SelectionChange(h) ==
    /\ h # highlightId
    /\ Commit(h, resetSignal)

\* the parent bumps the reset counter, possibly with a selection change in
\* the same update (App's "Center on Sun" also clears the selection)
ResetSignalChange(h) ==
    /\ resetSignal < MaxResets
    /\ Commit(h, resetSignal + 1)

\* a re-render with unchanged props (useThree() subscribes to the store)
Rerender == Commit(highlightId, resetSignal)

FrameUpdateCallsUnguarded(tgt, c, n) == IF c # NULL THEN n + 1 ELSE n

\* controls.update() is called by a frame only inside `if (targetRef.current)`
\* and `if (controls)`
FrameUpdateCalls(tgt, c, n) == IF tgt # Null /\ c # NULL THEN n + 1 ELSE n

\* useFrame callback; it closes over the last render's controls and scale
Frame ==
    /\ phase = "mounted"
    /\ rotationY < MaxFrames
    /\ rotationY' = rotationY + 1
    /\ IF targetRef # Null
       THEN /\ cameraPosition' =
                   Lerp(cameraPosition, Desired(targetRef, scale), LerpFactor)
            /\ IF controls # NULL
               THEN /\ controlsTarget' =
                           Lerp(controlsTarget, targetRef, LerpFactor)
                    /\ cameraLookAt' = controlsTarget'
               ELSE /\ cameraLookAt' = targetRef
                    /\ UNCHANGED controlsTarget
       ELSE UNCHANGED <<cameraPosition, cameraLookAt, controlsTarget>>
    /\ updateCalls' = FrameUpdateCalls(targetRef, controls, updateCalls)
    /\ UNCHANGED <<asteroids, hasSurface, phase, highlightId, resetSignal,
                   controlsRef, controls, targetRef, enableRotate, enabled,
                   timers, timeout, sinceSignal>>

Min(a, b) == IF a < b THEN a ELSE b

Max(a, b) == IF a < b THEN b ELSE a

\* the clock advances by TickMs; a due timeout runs before it advances again
Tick ==
    /\ PendingTimers # {}
    /\ \A i \in PendingTimers : timers[i].remaining > 0
    /\ timers' = [i \in 1..Len(timers) |->
                    IF timers[i].status = "pending"
                    THEN [timers[i] EXCEPT
                            !.remaining = Max(0, @ - TickMs)]
                    ELSE timers[i]]
    /\ sinceSignal' = Min(HomingMs, sinceSignal + TickMs)
    /\ UNCHANGED <<asteroids, hasSurface, phase, highlightId, resetSignal,
                   controlsRef, controls, targetRef, cameraPosition,
                   cameraLookAt, controlsTarget, enableRotate, enabled,
                   updateCalls, rotationY, timeout>>

TimerCallbackKeepsTarget(tgt) == tgt

\* () => { targetRef.current = null; }
TimerCallback(tgt) == Null

TimerFire(i) ==
    /\ i \in PendingTimers
    /\ timers[i].remaining = 0
    /\ timers' = [timers EXCEPT ![i] = [@ EXCEPT !.status = "fired"]]
    /\ targetRef' = TimerCallback(targetRef)
    /\ UNCHANGED <<asteroids, hasSurface, phase, highlightId, resetSignal,
                   controlsRef, controls, cameraPosition, cameraLookAt,
                   controlsTarget, enableRotate, enabled, updateCalls,
                   rotationY, timeout, sinceSignal>>

UnmountCleanupSkipped(ts, id) == ts

\* return () => clearTimeout(timeout), as run by the unmount
UnmountCleanup(ts, id) == ClearTimeout(ts, id)

\* unmount runs the cleanup of the resetSignal effect and detaches the ref
Unmount ==
    /\ phase = "mounted"
    /\ phase' = "unmounted"
    /\ timers' = UnmountCleanup(timers, timeout)
    /\ timeout' = 0
    /\ controlsRef' = NULL
    /\ UNCHANGED <<asteroids, hasSurface, highlightId, resetSignal, controls,
                   targetRef, cameraPosition, cameraLookAt, controlsTarget,
                   enableRotate, enabled, updateCalls, rotationY,
                   sinceSignal>>

Init ==
    /\ asteroids \in Scenes
    /\ hasSurface \in BOOLEAN
    /\ phase = "created"
    /\ highlightId = NULL
    /\ resetSignal = 0
    /\ controlsRef = NULL
    /\ controls = NULL
    /\ targetRef = Null
    /\ cameraPosition = Vec(<<0, 20, 20>>)
    /\ cameraLookAt = Origin
    /\ controlsTarget = Origin
    /\ enableRotate = TRUE
    /\ enabled = TRUE
    /\ updateCalls = 0
    /\ rotationY = 0
    /\ timers = <<>>
    /\ timeout = 0
    /\ sinceSignal = 0

Next ==
    \/ Mount
    \/ \E h \in HighlightIds : SelectionChange(h)
    \/ \E h \in HighlightIds : ResetSignalChange(h)
    \/ Rerender
    \/ Frame
    \/ Tick
    \/ \E i \in 1..Len(timers) : TimerFire(i)
    \/ Unmount

Spec == Init /\ [][Next]_vars

\* the browser's clock runs and a due timeout callback is eventually called
FairSpec == Spec /\ WF_vars(Tick) /\ WF_vars(\E i \in 1..Len(timers) : TimerFire(i))

\* ---------------------------------------------------------------- the App
\* The component as driven by App: selectedAsteroid is an entity of the
\* loaded scene or null, and highlightId is selectedAsteroid?.id ?? null.
AppOnSelectTargetUnchecked(ast, id, cur) == id

\* onSelect: const found = asteroids.find(a => a.id === id);
\*           if (found) setSelectedAsteroid(found)
AppOnSelectTarget(ast, id, cur) == IF id \in IdsOf(ast) THEN id ELSE cur

\* a pointer click on a body, or any other caller of onSelect; setting the
\* state to the value it has causes no re-render
AppOnSelect(id) ==
    LET h == AppOnSelectTarget(asteroids, id, highlightId)
    IN  /\ phase = "mounted"
        /\ IF h = highlightId THEN UNCHANGED vars
           ELSE Commit(h, resetSignal)

\* a click on an entry of the asteroid list: setSelectedAsteroid(a)
AppListClick(i) ==
    /\ phase = "mounted"
    /\ i \in 1..Min(Len(asteroids), 20)
    /\ IF asteroids[i].id = highlightId THEN UNCHANGED vars
       ELSE Commit(asteroids[i].id, resetSignal)

\* "Center on Sun": clears the selection, enables the controls if the ref
\* is attached, and bumps resetSignal, all in one update
AppCenterOnSun ==
    /\ ResetSignalChange(NULL)
    /\ controlsRef # NULL => (enableRotate' = TRUE /\ enabled' = TRUE)

AppInit == Init /\ hasSurface = TRUE

AppNext ==
    \/ Mount
    \/ \E i \in 1..2 : AppListClick(i)
    \/ \E id \in HighlightIds \ {NULL} : AppOnSelect(id)
    \/ AppCenterOnSun
    \/ Rerender
    \/ Frame
    \/ Tick
    \/ \E i \in 1..Len(timers) : TimerFire(i)
    \/ Unmount

AppSpec == AppInit /\ [][AppNext]_vars

TypeOK ==
    /\ asteroids \in Scenes
    /\ PositionSetOK(asteroids)
    /\ phase \in {"created", "mounted", "unmounted"}
    /\ highlightId \in HighlightIds
    /\ resetSignal \in 0..MaxResets
    /\ controls \in {NULL, "orbit"}
    /\ rotationY \in 0..MaxFrames

\* ------------------------------------------------------------ derived state
FocusOf(h) == RenderPosition(Find(asteroids, h), scale)

\* Focusing: the focus is the render position of the selected entity
Focusing ==
    /\ phase = "mounted"
    /\ Resolvable(highlightId)
    /\ targetRef = FocusOf(highlightId)

\* Homing: the focus is the origin and a homing timeout is pending
Homing ==
    /\ phase = "mounted"
    /\ targetRef = Origin
    /\ PendingTimers # {}

Idle == phase = "mounted" /\ targetRef = Null

Fires(i) == timers[i].status = "pending" /\ timers'[i].status = "fired"

\* ------------------------------------------------------------------- claims

\* C1: once the focus is the render position of the selected entity E, it
\* stays that position across every step in which neither highlightId nor
\* resetSignal changes; no timeout armed by an earlier reset clears it.
C1_FocusPersists ==
    [][(/\ Focusing
        /\ targetRef # Origin
        /\ highlightId' = highlightId
        /\ resetSignal' = resetSignal)
       => targetRef' = targetRef]_vars

\* C2: a commit in which resetSignal changed, from any state and whatever
\* highlightId the same commit delivers, leaves the focus at the origin, the
\* camera at (0, 20*max(1,scale), 40*max(1,scale)) and a full-length homing
\* timeout pending.
C2_ResetWins ==
    [][resetSignal' # resetSignal
       => /\ targetRef' = Origin
          /\ cameraPosition' =
                <<RInt(0),
                  IF RLe(RInt(1), scale) THEN RMul(RInt(20), scale)
                  ELSE RInt(20),
                  IF RLe(RInt(1), scale) THEN RMul(RInt(40), scale)
                  ELSE RInt(40)>>
          /\ \E i \in 1..Len(timers') :
                /\ timers'[i].status = "pending"
                /\ timers'[i].remaining = HomingMs]_vars

\* a reset was processed together with, or on top of, a resolvable selection
\* in a scene whose scale is below 1
C2_Witness ==
    /\ phase = "mounted"
    /\ resetSignal >= 1
    /\ sinceSignal = 0
    /\ Resolvable(highlightId)
    /\ ~RLe(RInt(1), scale)
    /\ targetRef = Origin
    /\ cameraPosition = Vec(<<0, 20, 40>>)
    /\ timers[Len(timers)].status = "pending"
    /\ timers[Len(timers)].cause = "signal"

\* C3: when the state is Focusing and highlightId changes to a non-null id
\* that matches no entity, the focus is cleared to null.
C3_UnknownIdClearsFocus ==
    [][(/\ Focusing
        /\ targetRef # Origin
        /\ highlightId' # NULL
        /\ highlightId' \notin IdsOf(asteroids)
        /\ resetSignal' = resetSignal)
       => targetRef' = Null]_vars

\* C4: once two reset signals have been processed, a timeout that fires is
\* the one armed by the latest signal, it fires one full homing duration
\* after that signal, it clears the focus, and no other timeout is left to
\* fire; a timeout superseded by a later signal never fires.
C4_OneIdleAfterSecondReset ==
    [][\A i \in 1..Len(timers) :
          (resetSignal >= 2 /\ Fires(i))
          => /\ i = Len(timers)
             /\ timers[i].cause = "signal"
             /\ sinceSignal = HomingMs
             /\ targetRef' = Null
             /\ {j \in 1..Len(timers') : timers'[j].status = "pending"} = {}
      ]_vars

\* the first of two signals' timeouts was cancelled by the second signal and
\* the second signal's timeout has fired
C4_Witness ==
    \E i \in 1..Len(timers) :
        /\ i + 1 = Len(timers)
        /\ timers[i].cause = "signal"
        /\ timers[i].status = "cancelled"
        /\ timers[i + 1].cause = "signal"
        /\ timers[i + 1].status = "fired"
        /\ targetRef = Null
        /\ sinceSignal = HomingMs

\* C5: during a homing window the focus stays the origin across every step
\* that is neither a prop change, a timeout callback nor the unmount; a
\* timeout callback sets the focus to null; and the window always ends: the
\* focus leaves the origin unless a reset signal or the unmount comes first.
\* Without a selection change, a reset signal or the unmount, the only step
\* that takes the focus off the origin is therefore the timeout callback,
\* and it leaves the focus null.
C5_HomingExpires ==
    /\ [][(/\ Homing
           /\ highlightId' = highlightId
           /\ resetSignal' = resetSignal
           /\ phase' = phase
           /\ \A i \in 1..Len(timers) : ~Fires(i))
          => targetRef' = Origin]_vars
    /\ [][\A i \in 1..Len(timers) : Fires(i) => targetRef' = Null]_vars
    /\ \A r \in 0..MaxResets :
          (Homing /\ resetSignal = r)
          ~> (\/ targetRef # Origin
              \/ resetSignal # r
              \/ phase = "unmounted")

\* a reset signal's homing window has run out undisturbed
C5_Witness ==
    /\ phase = "mounted"
    /\ resetSignal >= 1
    /\ sinceSignal = HomingMs
    /\ timers[Len(timers)].cause = "signal"
    /\ timers[Len(timers)].status = "fired"
    /\ targetRef = Null

\* C6: for an empty entity collection the computed scale factor is 1.
C6_EmptySceneScaleIsOne ==
    (phase = "mounted" /\ Len(asteroids) = 0) => scale = RInt(1)

\* C7: with an empty entity collection and the reset signal still at its
\* initial value, the focus is null and the camera is where the host put it.
C7_EmptySceneStaysIdle ==
    (phase = "mounted" /\ Len(asteroids) = 0 /\ resetSignal = 0)
    => (targetRef = Null /\ cameraPosition = Vec(<<0, 20, 20>>))

\* C8: the unmount leaves no timeout pending, and after it no step changes
\* the focus, the camera, the navigation-control object or any timeout.
C8_TeardownCancelsTimer ==
    [][phase' = "unmounted"
       => /\ \A i \in 1..Len(timers') : timers'[i].status # "pending"
          /\ (phase = "unmounted"
              => UNCHANGED <<targetRef, cameraPosition, cameraLookAt,
                             controlsTarget, enableRotate, enabled,
                             timers>>)]_vars

\* the component was unmounted during a homing window
C8_Witness ==
    /\ phase = "unmounted"
    /\ targetRef = Origin
    /\ Len(timers) > 0
    /\ timers[Len(timers)].status = "cancelled"

\* C9: when the focus is null and highlightId changes to an id that matches
\* no entity, the focus stays null and the camera position is unchanged.
C9_UnknownIdIsNoOp ==
    [][(/\ Idle
        /\ highlightId' # highlightId
        /\ highlightId' # NULL
        /\ highlightId' \notin IdsOf(asteroids)
        /\ resetSignal' = resetSignal)
       => (targetRef' = Null /\ cameraPosition' = cameraPosition)]_vars

\* C10: for every non-empty entity collection the scale factor used by a
\* render lies in [0.02, 5].
C10_ScaleInRange ==
    (phase # "created" /\ Len(asteroids) > 0)
    => (/\ 50 * scale[1] >= scale[2]
        /\ scale[1] <= 5 * scale[2])

\* a non-empty scene far enough out that the lower clamp applies
C10_Witness ==
    /\ phase = "mounted"
    /\ Len(asteroids) > 0
    /\ MaxDist(asteroids) > 1500
    /\ scale = <<1, 50>>

\* C11: whenever the largest distance from the origin is positive, the scale
\* is 30/maxDist clamped to [0.02, 5]; the scene of the single entity at
\* [100,0,0] has maxDist 100, scale 0.3 and projected position [30,0,0].
C11_ScaleFormula ==
    LET m == ReduceMax(asteroids, 1, 0)
    IN  (phase # "created" /\ m > 0)
        => /\ IF DesiredMax > 5 * m THEN scale = <<5, 1>>
              ELSE IF 50 * DesiredMax < m THEN scale = <<1, 50>>
              ELSE scale[1] * m = DesiredMax * scale[2]
           /\ (Len(asteroids) = 1 /\ asteroids[1].position = <<100, 0, 0>>)
              => /\ m = 100
                 /\ scale = <<3, 10>>
                 /\ ScaledPos(asteroids[1], scale) = Vec(<<30, 0, 0>>)

\* the [100,0,0] scene has been rendered
C11_Witness ==
    /\ phase = "mounted"
    /\ Len(asteroids) = 1
    /\ asteroids[1].position = <<100, 0, 0>>
    /\ scale = <<3, 10>>
    /\ ScaledPos(asteroids[1], scale) = Vec(<<30, 0, 0>>)

\* C13: every rendered coordinate is the raw coordinate times the scale, for
\* the position and for every orbit point of every entity, and the rendered
\* orbit has the points of the raw orbit, in the same order and number.
C13_ProjectionIsLinear ==
    phase # "created"
    => \A i \in 1..Len(asteroids) :
          LET a == asteroids[i]
              sp == ScaledPos(a, scale)
              lp == LinePoints(a, scale)
          IN  /\ \A k \in 1..3 :
                    sp[k][1] * scale[2] = a.position[k] * scale[1] * sp[k][2]
              /\ Len(lp) = Len(a.orbit)
              /\ \A j \in 1..Len(a.orbit) : \A k \in 1..3 :
                    lp[j][k][1] * scale[2]
                        = a.orbit[j][k] * scale[1] * lp[j][k][2]

\* a rendered scene whose scale is not 1 and whose orbits have three
\* distinct points
C13_Witness ==
    /\ phase = "mounted"
    /\ scale # <<1, 1>>
    /\ \E i \in 1..Len(asteroids) :
          /\ Len(LinePoints(asteroids[i], scale)) = 3
          /\ LinePoints(asteroids[i], scale)[1]
                # LinePoints(asteroids[i], scale)[2]
          /\ ScaledPos(asteroids[i], scale) # Vec(asteroids[i].position)

\* C14: doubling every position of a scene whose largest distance is
\* positive does not increase the scale.
C14_DoublingNeverIncreasesScale ==
    LET doubled == [i \in 1..Len(asteroids) |->
                      [asteroids[i] EXCEPT
                          !.position = <<2 * @[1], 2 * @[2], 2 * @[3]>>]]
    IN  (phase # "created" /\ ReduceMax(asteroids, 1, 0) > 0)
        => RLe(Scale(doubled), Scale(asteroids))

\* a rendered scene for which doubling strictly lowers the scale
C14_Witness ==
    /\ phase = "mounted"
    /\ Len(asteroids) = 1
    /\ asteroids[1].position = <<100, 0, 0>>
    /\ Scale(asteroids) = <<3, 10>>
    /\ Scale(<<Entity("a", <<200, 0, 0>>)>>) = <<3, 20>>

\* C12: a frame that runs while the focus is null changes neither the camera
\* position, nor its orientation, nor the target of the navigation-control
\* object, and does not call the object's update().
C12_IdleFrameIsInert ==
    [][(targetRef = Null /\ rotationY' # rotationY)
       => UNCHANGED <<cameraPosition, cameraLookAt, controlsTarget,
                      updateCalls>>]_vars

\* a frame has run with a null focus after the camera was placed by a reset
\* and a navigation-control object is in use
C12_Witness ==
    /\ phase = "mounted"
    /\ controls # NULL
    /\ targetRef = Null
    /\ rotationY >= 1
    /\ timers[Len(timers)].status = "fired"
    /\ cameraPosition = HomePosition(scale)

\* C15: at most one homing timeout is pending in every reachable state.
C15_AtMostOnePendingTimer == Cardinality(PendingTimers) <= 1

\* a timeout armed when the controls object changed was cancelled by the
\* reset signal that armed the pending one
C15_Witness ==
    /\ Len(timers) = 3
    /\ timers[2].cause = "controls"
    /\ timers[2].status = "cancelled"
    /\ timers[3].cause = "signal"
    /\ PendingTimers = {3}

\* C16: while the component is mounted, a new homing window (focus set to
\* the origin, camera copied to the home position, timeout armed) starts
\* only in a step that changes resetSignal.
C16_OnlyResetSignalStartsHoming ==
    [][(phase = "mounted" /\ Len(timers') > Len(timers))
       => resetSignal' # resetSignal]_vars

\* C17: when highlightId changes to null during a homing window that is not
\* also a focus on the selected entity, the focus stays the origin and the
\* timeout stays pending.
C17_NullSelectionKeepsHoming ==
    [][(/\ Homing
        /\ ~Focusing
        /\ highlightId # NULL
        /\ highlightId' = NULL
        /\ resetSignal' = resetSignal)
       => (targetRef' = Origin /\ PendingTimers' # {})]_vars

\* C18: a frame leaves the focus, the timeouts and the cleanup's timeout id
\* as they are, and while the focus is set it moves the camera by 0.08 of
\* the way to focus + (0, 12*scale, 24*scale), whatever the frame count.
C18_FrameOnlyNudges ==
    [][rotationY' # rotationY
       => /\ targetRef' = targetRef
          /\ timers' = timers
          /\ timeout' = timeout
          /\ targetRef # Null
             => LET d == <<targetRef[1],
                           RAdd(targetRef[2], RMul(RInt(12), scale)),
                           RAdd(targetRef[3], RMul(RInt(24), scale))>>
                IN  \A k \in 1..3 :
                       RMul(RInt(25),
                            RSub(cameraPosition'[k], cameraPosition[k]))
                       = RMul(RInt(2), RSub(d[k], cameraPosition[k]))
      ]_vars

\* the second frame in a row has moved the camera toward a focused entity in
\* a scene whose scale is not 1
C18_Witness ==
    /\ Focusing
    /\ targetRef # Origin
    /\ scale # <<1, 1>>
    /\ rotationY = 2
    /\ cameraPosition[3][2] = 625
    /\ PendingTimers = {}

\* C20: every commit (a step that changes highlightId, resetSignal or the
\* rendered controls object) gives the focus, the pending-timeout
\* flag and the camera position the values the same step gives when no
\* navigation-control object exists, where `controls` is always null and
\* the resetSignal effect re-runs only when resetSignal changes.
C20_SurfaceMakesNoDifference ==
    [][(/\ phase = "mounted"
        /\ \/ highlightId' # highlightId
           \/ resetSignal' # resetSignal
           \/ controls' # controls)
       => IF resetSignal' # resetSignal
          THEN /\ targetRef' = Origin
               /\ cameraPosition' = HomePosition(scale)
               /\ PendingTimers' # {}
          ELSE /\ targetRef' =
                     IF highlightId' # highlightId
                     THEN HighlightEffect(highlightId', asteroids, scale,
                                          targetRef)
                     ELSE targetRef
               /\ cameraPosition' = cameraPosition
               /\ (PendingTimers' # {}) = (PendingTimers # {})]_vars

\* C19: in the App the highlightId passed to the scene is null or the id of
\* an entity of the loaded scene; an onSelect with an id that matches no
\* entity leaves the selection as it was.
C19_SelectionExists ==
    phase # "created" => (highlightId = NULL \/ highlightId \in IdsOf(asteroids))

\* an entity is selected in a one-entity scene, where onSelect("b") carries
\* an id that matches no entity, after a reset had cleared the selection
C19_Witness ==
    /\ phase = "mounted"
    /\ Len(asteroids) = 1
    /\ highlightId = "a"
    /\ resetSignal >= 1
    /\ Focusing

====
